---- MODULE Spec2Model ----
(***************************************************************************)
(* A model of the droprate crate (src/src/lib.rs): RandomTable, the        *)
(* memoryless weighted table, and FairlyRandomTable, the history-aware     *)
(* table built on it.                                                      *)
(*                                                                         *)
(* f64 values are modelled as exact extended rationals <<n, d>>:           *)
(*   d > 0  : the finite value n/d in lowest terms,                        *)
(*   <<1,0>>: +infinity, <<-1,0>>: -infinity, <<0,0>>: NaN                 *)
(* (the IEEE-754 results of dividing by a zero total).  Rounding is not    *)
(* modelled, and neither is the sign of zero: both totals start at +0.0    *)
(* and only ever have values added to them, so a divisor is never -0.0.    *)
(* A HashMap is a function from the identifiers it holds to their weights; *)
(* its iteration order is an arbitrary permutation of its keys, chosen     *)
(* anew by every walk.  The random generators are inputs: each draw takes  *)
(* a variate u in [0,1) from a grid.                                       *)
(***************************************************************************)
EXTENDS Integers, Sequences, FiniteSets, TLC

VARIABLES
    kind,    \* which implementation of ProbabilityTable the caller holds
    rt,      \* the RandomTable: [table, total]
    frt,     \* the FairlyRandomTable: [base: RandomTable, table, total]
    last,    \* the last call and the identifier (or Err) it returned
    npush,   \* pushes made so far
    ndraw,   \* FairlyRandomTable::random calls made so far
    allpos   \* history: every weight given so far was > 0

vars == <<kind, rt, frt, last, npush, ndraw, allpos>>

\* ------------------------------------------------------------ bounds
NumKeys == 2
MaxWeight == 2
MaxNeg == 1
UDen == 4
MaxPush == 2
MaxDraw == 3

\* ------------------------------------------------------------ f64
Abs(n) == IF n < 0 THEN -n ELSE n

RECURSIVE GCD(_, _)
GCD(a, b) == IF b = 0 THEN a ELSE GCD(b, a % b)

Norm(n, d) ==
    LET g == GCD(Abs(n), Abs(d))
        s == IF d < 0 THEN -1 ELSE 1
    IN <<s * (n \div g), s * (d \div g)>>

Fin(n) == <<n, 1>>
Zero == <<0, 1>>
PInf == <<1, 0>>
NInf == <<-1, 0>>
NaN == <<0, 0>>

IsNaN(x) == x = NaN
IsInf(x) == x = PInf \/ x = NInf
Sign(x) == IF x[1] > 0 THEN 1 ELSE IF x[1] < 0 THEN -1 ELSE 0
InfOf(s) == IF s > 0 THEN PInf ELSE IF s < 0 THEN NInf ELSE NaN

FNeg(x) == <<-x[1], x[2]>>

FAdd(x, y) ==
    IF IsNaN(x) \/ IsNaN(y) THEN NaN
    ELSE IF IsInf(x) THEN (IF IsInf(y) /\ y # x THEN NaN ELSE x)
    ELSE IF IsInf(y) THEN y
    ELSE Norm(x[1] * y[2] + y[1] * x[2], x[2] * y[2])

FSub(x, y) == FAdd(x, FNeg(y))

FMul(x, y) ==
    IF IsNaN(x) \/ IsNaN(y) THEN NaN
    ELSE IF IsInf(x) \/ IsInf(y) THEN InfOf(Sign(x) * Sign(y))
    ELSE Norm(x[1] * y[1], x[2] * y[2])

FDiv(x, y) ==
    IF IsNaN(x) \/ IsNaN(y) THEN NaN
    ELSE IF IsInf(x) THEN (IF IsInf(y) THEN NaN
                           ELSE IF Sign(y) < 0 THEN FNeg(x) ELSE x)
    ELSE IF IsInf(y) THEN Zero
    ELSE IF y[1] = 0 THEN InfOf(Sign(x))
    ELSE Norm(x[1] * y[2], x[2] * y[1])

FGt(x, y) ==
    IF IsNaN(x) \/ IsNaN(y) THEN FALSE
    ELSE IF x = y THEN FALSE
    ELSE IF x = PInf \/ y = NInf THEN TRUE
    ELSE IF x = NInf \/ y = PInf THEN FALSE
    ELSE x[1] * y[2] > y[1] * x[2]

\* ------------------------------------------------------------ inputs
Keys == 1..NumKeys
Weights == {Fin(i) : i \in (-MaxNeg)..MaxWeight}
UVariates == {Norm(i, UDen) : i \in 0..(UDen - 1)}
Maps == UNION {[S -> Weights] : S \in SUBSET Keys}

\* The iteration orders of a HashMap holding the keys S.
Orders(S) ==
    {s \in [1..Cardinality(S) -> S] : \A i, j \in DOMAIN s : i # j => s[i] # s[j]}

EmptyMap == [k \in {} |-> Zero]

\* HashMap::insert
Insert(m, ident, weight) ==
    [k \in DOMAIN m \cup {ident} |-> IF k = ident THEN weight ELSE m[k]]

\* The sum of a map's values, added in the order given.
RECURSIVE SumIn(_, _, _)
SumIn(m, order, i) ==
    IF i = 0 THEN Zero ELSE FAdd(SumIn(m, order, i - 1), m[order[i]])

SumOf(m) == LET o == CHOOSE s \in Orders(DOMAIN m) : TRUE IN SumIn(m, o, Len(o))

\* Err(...): no identifier.
Err == 0

\* The walk shared by the three draws: the first entry whose weight exceeds
\* the running remainder.
RECURSIVE Walk(_, _, _, _)
Walk(m, order, i, comp) ==
    IF i > Len(order) THEN Err
    ELSE IF FGt(m[order[i]], comp) THEN order[i]
    ELSE Walk(m, order, i + 1, FSub(comp, m[order[i]]))

\* ------------------------------------------------------------ RandomTable
RT_new == [table |-> EmptyMap, total |-> Zero]

RT_from_map(in_table) == [table |-> in_table, total |-> SumOf(in_table)]

RT_push(t, ident, weight) ==
    [table |-> Insert(t.table, ident, weight), total |-> FAdd(t.total, weight)]

RT_count(t) == Cardinality(DOMAIN t.table)

RT_keys(t) == DOMAIN t.table

RT_random(t, u, order) == Walk(t.table, order, 1, FMul(u, t.total))

\* ------------------------------------------------------------ FairlyRandomTable
FRT_new == [base |-> RT_new, table |-> EmptyMap, total |-> Zero]

FRT_from_map(in_table) ==
    [base |-> RT_from_map(in_table), table |-> in_table, total |-> SumOf(in_table)]

FRT_pure_random_working(f, u, order) == Walk(f.table, order, 1, FMul(u, f.total))
FRT_pure_random(f, u, order) == Walk(f.base.table, order, 1, FMul(u, f.total))

\* One key's ratio in the loop of redistribute_weights.
Ratio_ofLocal(f, key) == FDiv(f.table[key], f.base.total)
Ratio(f, key) == FDiv(f.base.table[key], f.base.total)

redistribute_weights(f, amount) ==
    [f EXCEPT !.table = [k \in DOMAIN f.table |->
        IF k \notin DOMAIN f.base.table THEN f.table[k]
        ELSE FAdd(f.table[k], FMul(amount, Ratio(f, k)))]]

FRT_push_noBase(f, ident, weight) ==
    [base |-> f.base,
     table |-> Insert(f.table, ident, weight),
     total |-> FAdd(f.total, weight)]
FRT_push(f, ident, weight) ==
    [base |-> RT_push(f.base, ident, weight),
     table |-> Insert(f.table, ident, weight),
     total |-> FAdd(f.total, weight)]

FRT_count(f) == Cardinality(DOMAIN f.table)

FRT_keys(f) == DOMAIN f.table

\* The walk of FairlyRandomTable::random: the matched key, or Err.
FRT_match(f, u, order) == Walk(f.table, order, 1, FMul(u, f.total))

\* The table after FairlyRandomTable::random matched the key sel.
FRT_selected_zeroLast(f, sel) ==
    [redistribute_weights(f, f.table[sel]) EXCEPT !.table[sel] = Zero]
FRT_selected_noZero(f, sel) == redistribute_weights(f, f.table[sel])
FRT_selected(f, sel) ==
    redistribute_weights([f EXCEPT !.table[sel] = Zero], f.table[sel])

\* ------------------------------------------------------------ the state machine
RTk == "RandomTable"
FRTk == "FairlyRandomTable"

\* History: whether every weight given so far (bulk load, push) was > 0.
AllPositive(m) == \A k \in DOMAIN m : FGt(m[k], Zero)

Init ==
    /\ kind \in {RTk, FRTk}
    /\ \E m \in Maps :
         /\ rt = IF kind = RTk THEN RT_from_map(m) ELSE RT_new
         /\ frt = IF kind = FRTk THEN FRT_from_map(m) ELSE FRT_new
         /\ last = [op |-> IF m = EmptyMap THEN "new" ELSE "from_map", res |-> Err]
         /\ allpos = AllPositive(m)
    /\ npush = 0
    /\ ndraw = 0

RTPush ==
    /\ kind = RTk
    /\ npush < MaxPush
    /\ \E ident \in Keys, weight \in Weights :
         /\ rt' = RT_push(rt, ident, weight)
         /\ last' = [op |-> "push", res |-> Err]
         /\ allpos' = (allpos /\ FGt(weight, Zero))
    /\ npush' = npush + 1
    /\ UNCHANGED <<kind, frt, ndraw>>

RTRandom ==
    /\ kind = RTk
    /\ \E u \in UVariates, order \in Orders(DOMAIN rt.table) :
         last' = [op |-> "random", res |-> RT_random(rt, u, order)]
    /\ UNCHANGED <<kind, rt, frt, npush, ndraw, allpos>>

FRTPush ==
    /\ kind = FRTk
    /\ npush < MaxPush
    /\ \E ident \in Keys, weight \in Weights :
         /\ frt' = FRT_push(frt, ident, weight)
         /\ last' = [op |-> "push", res |-> Err]
         /\ allpos' = (allpos /\ FGt(weight, Zero))
    /\ npush' = npush + 1
    /\ UNCHANGED <<kind, rt, ndraw>>

FRTPureRandom_redistributing ==
    /\ kind = FRTk
    /\ \E u \in UVariates, order \in Orders(DOMAIN frt.base.table) :
         LET sel == FRT_pure_random(frt, u, order) IN
         /\ last' = [op |-> "pure_random", res |-> sel]
         /\ frt' = IF sel = Err THEN frt ELSE FRT_selected(frt, sel)
    /\ UNCHANGED <<kind, rt, npush, ndraw, allpos>>
FRTPureRandom ==
    /\ kind = FRTk
    /\ \E u \in UVariates, order \in Orders(DOMAIN frt.base.table) :
         last' = [op |-> "pure_random", res |-> FRT_pure_random(frt, u, order)]
    /\ UNCHANGED <<kind, rt, frt, npush, ndraw, allpos>>

FRTRandom ==
    /\ kind = FRTk
    /\ ndraw < MaxDraw
    /\ \E u \in UVariates, order \in Orders(DOMAIN frt.table) :
         LET sel == FRT_match(frt, u, order) IN
         /\ last' = [op |-> "random", res |-> sel]
         /\ frt' = IF sel = Err THEN frt ELSE FRT_selected(frt, sel)
    /\ ndraw' = ndraw + 1
    /\ UNCHANGED <<kind, rt, npush, allpos>>

Next == RTPush \/ RTRandom \/ FRTPush \/ FRTPureRandom \/ FRTRandom

Spec == Init /\ [][Next]_vars

\* ------------------------------------------------------------ the claims
Drew == last.op = "random" /\ last.res # Err

\* C1: a RandomTable's total equals the sum of the weights it stores, after
\* any sequence of pushes from an empty or bulk-loaded table, re-insertions
\* of a stored identifier included.
C1_TotalIsSum ==
    /\ rt.total = SumOf(rt.table)
    /\ frt.base.total = SumOf(frt.base.table)

\* C2: a RandomTable whose total is > 0 answers every draw with an
\* identifier, whatever the variate and the walk order.
C2_PositiveTotalDraws ==
    (kind = RTk /\ FGt(rt.total, Zero)) =>
        \A u \in UVariates, order \in Orders(DOMAIN rt.table) :
            RT_random(rt, u, order) # Err

\* C3: a table with no options, or whose options all have a weight <= 0,
\* answers every draw with Err, whatever the variate and the walk order.
C3_NonPositiveExhausts ==
    /\ (kind = RTk /\ \A k \in DOMAIN rt.table : ~FGt(rt.table[k], Zero)) =>
          \A u \in UVariates, order \in Orders(DOMAIN rt.table) :
              RT_random(rt, u, order) = Err
    /\ (kind = FRTk /\ ndraw = 0
          /\ \A k \in DOMAIN frt.table : ~FGt(frt.table[k], Zero)) =>
          \A u \in UVariates, order \in Orders(DOMAIN frt.table) :
              FRT_match(frt, u, order) = Err

\* C4: a FairlyRandomTable's total equals the sum of its working weights in
\* every state, and right after a successful draw that sum equals base.total.
C4_WorkingTotalIsSum ==
    kind = FRTk =>
        /\ frt.total = SumOf(frt.table)
        /\ Drew => SumOf(frt.table) = frt.base.total

\* C5 as stated: with a single option of positive weight, a successful draw
\* leaves its working weight and the working total at 0, and the next draw
\* fails for every variate.
C5_SingleOptionExhausts ==
    \A x \in Keys :
        (kind = FRTk /\ DOMAIN frt.table = {x} /\ FGt(frt.base.table[x], Zero)
           /\ Drew) =>
            /\ frt.table[x] = Zero
            /\ frt.total = Zero
            /\ \A u \in UVariates : FRT_match(frt, u, <<x>>) = Err

\* C5 amended: with a single option x of positive weight, a successful draw
\* that removes the working weight w leaves the working total unchanged and
\* x's working weight at w * base.weight(x) / base.total, its own share of
\* the redistribution; the next draw returns x for exactly the variates u
\* with u * total below that weight.  When base.total is x's weight and x
\* holds it (x was given once), the table is left as it was and the next draw
\* returns x for every variate.
C5_SingleOptionKeepsShare ==
    [][\A x \in Keys :
        (kind = FRTk /\ DOMAIN frt.table = {x} /\ FGt(frt.base.table[x], Zero)
           /\ last'.op = "random" /\ last'.res = x) =>
            /\ frt'.total = frt.total
            /\ frt'.table[x] =
                 FDiv(FMul(frt.table[x], frt.base.table[x]), frt.base.total)
            /\ \A u \in UVariates :
                 (FRT_match(frt', u, <<x>>) = x)
                     <=> FGt(frt'.table[x], FMul(u, frt'.total))
            /\ (frt.base.total = frt.base.table[x] /\ frt.table[x] = frt.base.table[x]) =>
                 /\ frt'.table = frt.table
                 /\ \A u \in UVariates : FRT_match(frt', u, <<x>>) = x
      ]_vars

C5_Witness ==
    \E x \in Keys :
        /\ kind = FRTk /\ DOMAIN frt.table = {x} /\ FGt(frt.base.table[x], Zero)
        /\ Drew /\ ndraw = 2
        /\ frt.table[x] = frt.base.table[x]
        /\ frt.total = frt.base.table[x]

\* C6: pure_random and RandomTable::random change no stored weight, no
\* original weight, no total and no key, whatever they return.
C6_DrawsReadOnly ==
    [][(last'.op = "pure_random" \/ (kind = RTk /\ last'.op = "random")) =>
          (rt' = rt /\ frt' = frt)]_vars

C6_Witness ==
    /\ kind = FRTk /\ last.op = "pure_random" /\ last.res # Err
    /\ ndraw > 0 /\ frt.table # frt.base.table

\* C7: the working map and the base map of a FairlyRandomTable hold the same
\* keys, and count() is the number of those keys.
C7_KeySetsAgree ==
    kind = FRTk =>
        /\ DOMAIN frt.table = DOMAIN frt.base.table
        /\ FRT_keys(frt) = RT_keys(frt.base)
        /\ FRT_count(frt) = RT_count(frt.base)

C7_Witness ==
    /\ kind = FRTk /\ Drew /\ npush = MaxPush /\ FRT_count(frt) = NumKeys

\* C8 as stated: with at least 2 options, right after a successful draw the
\* selected option's working weight is strictly below its original weight.
C8_SelectedBelowOriginal ==
    (kind = FRTk /\ FRT_count(frt) >= 2 /\ Drew) =>
        FGt(frt.base.table[last.res], frt.table[last.res])

\* C8 amended: the same, for a table every weight ever given to which (by bulk
\* load or push) was positive.
C8_SelectedBelowOriginalPositive ==
    (kind = FRTk /\ FRT_count(frt) >= 2 /\ Drew /\ allpos) =>
        FGt(frt.base.table[last.res], frt.table[last.res])

C8_Witness ==
    /\ kind = FRTk /\ FRT_count(frt) >= 2 /\ Drew /\ allpos
    /\ ndraw = MaxDraw /\ npush > 0
    /\ FGt(frt.table[last.res], Zero)

\* C9: a successful adaptive draw of x, of working weight w, adds
\* w * base.weight(id) / base.total to the working weight of every other
\* option id, and changes neither the original weights nor base.total.
C9_Redistribution ==
    [][(kind = FRTk /\ last'.op = "random" /\ last'.res # Err) =>
          LET x == last'.res
              w == frt.table[x]
          IN /\ \A id \in DOMAIN frt.table \ {x} :
                   frt'.table[id] =
                     FAdd(frt.table[id],
                          FDiv(FMul(w, frt.base.table[id]), frt.base.total))
             /\ frt'.base = frt.base
      ]_vars

C9_Witness ==
    /\ kind = FRTk /\ Drew /\ ndraw >= 2 /\ FRT_count(frt) >= 2
    /\ \E id \in DOMAIN frt.table \ {last.res} :
         FGt(frt.table[id], frt.base.table[id])

\* C10: pure_random returns what RandomTable::random returns on the base
\* table for the same variate and walk order: it scales by a total equal to
\* base.total and walks the original weights.
C10_PureIsBaseDraw ==
    kind = FRTk =>
        /\ frt.total = frt.base.total
        /\ \A u \in UVariates, order \in Orders(DOMAIN frt.base.table) :
             FRT_pure_random(frt, u, order) = RT_random(frt.base, u, order)

C10_Witness ==
    /\ kind = FRTk /\ last.op = "pure_random" /\ last.res # Err
    /\ ndraw > 0 /\ npush > 0
    /\ \E u \in UVariates, order \in Orders(DOMAIN frt.table) :
         FRT_match(frt, u, order) # last.res /\ FRT_match(frt, u, order) # Err

====
